---- MODULE Spec2Model ----
(***************************************************************************)
(* pynom2rdf: the two command line tools masterdata2rdf.py (EcoSpold2 XML  *)
(* master data) and isic2rdf.py (ISIC classification CSV) build an RDF     *)
(* graph, a set of triples, and serialize it.  A node is <<namespace,      *)
(* local name>>, a literal is <<"Literal", text, language>>, a triple is   *)
(* <<subject, predicate, object>>.  Local names and texts of the           *)
(* masterdata tool are strings, built with \o as the code builds them      *)
(* with + and f-strings.                                                   *)
(***************************************************************************)
EXTENDS Integers, Sequences, FiniteSets, TLC

VARIABLES
    pc,          \* where the run is: start, tags, loop, version, rows, built, prompt,
                 \* serialize, done, error
    graph,       \* the rdflib Graph: a set of triples
    root,        \* the parsed XML document (masterdata2rdf)
    registry,    \* xml2graph's local variable registry
    tag,         \* position in masterDataTransf.keys() (1..3), 4 once the loop is over
    idx,         \* position of the mapper's loop in findall(tag) / data.index
    args,        \* the parsed command line
    output_path, \* main's local variable output_path
    written,     \* the files graph.serialize has written
    prompts,     \* number of input() calls answered so far
    data,        \* the DataFrame read_csv returns (isic2rdf): the rows, in order
    version,     \* isic2crid's local variable version
    input_text,  \* an argument of sup_spe_charact
    returned,    \* what sup_spe_charact returned, call after call
    depth,       \* calls of the prompting function (verify_version,
                 \* avoid_overwrite) nested in its first call
    readable     \* whether Xml.parse / read_csv can read the input file

vars == <<pc, graph, root, registry, tag, idx, args, output_path, written, prompts,
          data, version, input_text, returned, depth, readable>>

\* ------------------------------------------------------------------ bounds
\* most records under the root of an input file with several records
MaxRecs == 2
\* most consecutive answers the operator gives to one prompt
MaxPrompts == 2
\* most rows of an ISIC input
MaxRows == 2
\* longest argument of sup_spe_charact, and most calls in a row
MaxLen == 2
MaxCalls == 2

\* ------------------------------------------------------------------ terms
OBO(x) == <<"OBO", x>>
IEO(x) == <<"IEO", x>>
ECO(x) == <<"ECO", x>>
RDF_type == <<"RDF", "type">>
RDFS_label == <<"RDFS", "label">>
RDFS_comment == <<"RDFS", "comment">>
RDFS_subClassOf == <<"RDFS", "subClassOf">>
NoLang == "-"
Literal(text, lang) == <<"Literal", text, lang>>

SERVICE == OBO("OBI_0001173")
MATERIAL_ENTITY == OBO("BFO_0000040")
IAO_denotes == OBO("IAO_0000219")
BFO_has_part == OBO("BFO_0000051")
BFO_part_of == OBO("BFO_0000050")
REGISTRY_VERSION == IEO("IEO_0000043")
LCA_REGISTRY == IEO("IEO_0000044")
REF_ACTIVITY == IEO("IEO_0000065")
ACT_CRID == IEO("IEO_0000066")
ACT_REGISTRY == IEO("IEO_0000067")
REF_PRODUCT == IEO("IEO_0000068")
PROD_CRID == IEO("IEO_0000069")
PROD_REGISTRY == IEO("IEO_0000070")
IEO_to_sort == IEO("to_sort")

registries ==
    [n \in {"http://www.EcoInvent.org/EcoSpold02"} |->
        [reg_id |-> "de659012-50c4-4e96-b54a-fc781bf987ab", label |-> "EcoInvent"]]

ecoinvent_units ==
    [service |-> {"ha", "hour", "kWh", "km*year", "kg*day", "m*year", "m2*year",
                  "m3*year", "metric ton*km", "l", "person*km"},
     good |-> {"m3", "unit", "km"},
     not_determined |-> {"kg", "m", "m2", "MJ"}]

\* ------------------------------------------------------------ nom_graph()
nom_graph ==
    LET crid_sym == OBO("IAO_0000577")
        crid == OBO("IAO_0000578")
        crid_reg == OBO("IAO_0000579")
    IN  { <<crid_sym, RDFS_label, Literal("centrally registered identifier symbol", "en")>>,
          <<crid, RDFS_label, Literal("centrally registered identifier", "en")>>,
          <<crid_reg, RDFS_label, Literal("centrally registered identifier registry", "en")>>,
          <<LCA_REGISTRY, RDFS_label, Literal("life cycle database registry", "en")>>,
          <<REF_ACTIVITY, RDFS_label, Literal("reference activity", "en")>>,
          <<ACT_CRID, RDFS_label, Literal("reference activity identifier", "en")>>,
          <<ACT_REGISTRY, RDFS_label, Literal("reference activity registry", "en")>>,
          <<REF_PRODUCT, RDFS_label, Literal("reference product", "en")>>,
          <<PROD_CRID, RDFS_label, Literal("reference product registry", "en")>>,
          <<PROD_REGISTRY, RDFS_label, Literal("reference product registry", "en")>>,
          <<REGISTRY_VERSION, RDFS_label, Literal("registry version", "en")>>,
          <<REF_ACTIVITY, RDFS_subClassOf, crid_sym>>,
          <<REF_PRODUCT, RDFS_subClassOf, crid_sym>>,
          <<ACT_CRID, RDFS_subClassOf, crid>>,
          <<PROD_CRID, RDFS_subClassOf, crid>>,
          <<LCA_REGISTRY, RDFS_subClassOf, crid_reg>>,
          <<ACT_REGISTRY, RDFS_subClassOf, crid_reg>>,
          <<PROD_REGISTRY, RDFS_subClassOf, crid_reg>>,
          <<REGISTRY_VERSION, RDFS_subClassOf, crid_sym>> }

\* ------------------------------------------------------ the XML document
\* An element that is not there (find() returns None) and an element whose
\* text is None.
NoElement == "<no element>"
NoneText == "<None>"

Tags == <<"activityName", "intermediateExchange", "elementaryExchange">>
Langs == {"en", "fr"}

\* Number of child elements of a record: the names, the property block, the
\* unitName and the compartment container.
NChildren(rec) ==
    Len(rec.names)
    + (IF rec.property THEN 1 ELSE 0)
    + (IF rec.unitName # NoElement THEN 1 ELSE 0)
    + (IF \E l \in Langs : rec.comp[l] # "absent" \/ rec.sub[l] THEN 1 ELSE 0)

\* xml_root.findall(tag, namespaces): the records of that tag, in document order
findall(xml_root, t) == SelectSeq(xml_root.recs, LAMBDA r : r.kind = t)

\* bool(root.find(tag, ns)): an Element is true when it has child elements,
\* None is false.
find_is_true(xml_root, t) ==
    LET found == findall(xml_root, t)
    IN  found # <<>> /\ NChildren(Head(found)) > 0

\* text of the compartment / subcompartment element of a language
compartment_text == [l \in Langs |-> IF l = "en" THEN "air" ELSE "air (fr)"]
subcompartment_text == [l \in Langs |-> IF l = "en" THEN "urban" ELSE "urbain"]

\* ------------------------------------------------------ database identity
database_version(xml_root) == "v" \o xml_root.majorRelease \o "_" \o xml_root.minorRelease
database_id(xml_root, reg) == reg.reg_id \o database_version(xml_root)
\* the label define_registry's wrapper gives the database version node
wrapper_database_label(xml_root, reg) ==
    reg.label \o "v" \o xml_root.majorRelease \o "." \o xml_root.minorRelease
\* the label the mappers prefix the CRID labels with
database_label(xml_root, reg) ==
    reg.label \o xml_root.majorRelease \o "." \o xml_root.minorRelease

\* define_registry.func_wrapper, up to the call of the mapper
func_wrapper(xml_root, reg) ==
    LET dbid == database_id(xml_root, reg)
        dblabel == wrapper_database_label(xml_root, reg)
    IN  { <<ECO(reg.reg_id), RDF_type, LCA_REGISTRY>>,
          <<ECO(dbid), RDF_type, REGISTRY_VERSION>>,
          <<ECO(dbid), RDFS_label, Literal(dblabel, NoLang)>>,
          <<ECO(dbid), IAO_denotes, ECO(reg.reg_id)>>,
          <<IAO_denotes, RDFS_label, Literal("denotes", "en")>>,
          <<MATERIAL_ENTITY, RDFS_label, Literal("material entity", "en")>>,
          <<SERVICE, RDFS_label, Literal("service", "en")>>,
          <<BFO_has_part, RDFS_label, Literal("has part", "en")>>,
          <<BFO_part_of, RDFS_label, Literal("part of", "en")>> }

\* The two mappers spell the same comment with different trailing white space
\* (the indentation before the closing quotes), so the literals differ.
inter_to_sort_comment == "Some product cannot be automatically defined ... suppressed.\n    "
elem_to_sort_comment == "Some product cannot be automatically defined ... suppressed.\n        "
to_sort_triples(to_sort_comment) ==
    { <<IEO_to_sort, RDFS_label, Literal("product to sort", "en")>>,
      <<IEO_to_sort, RDFS_comment, Literal(to_sort_comment, "en")>> }

\* the triples a mapper adds before its loop over the records
mapper_header(t, reg) ==
    {<<ECO(reg.reg_id), RDFS_label, Literal(reg.label, "en")>>} \cup
    CASE t = "activityName" ->
            { <<ECO("activityId"), RDFS_subClassOf, ACT_CRID>>,
              <<ECO("activityId"), RDFS_label, Literal("EcoInvent activity identifier", "en")>>,
              <<ECO("activity_name"), RDFS_subClassOf, REF_ACTIVITY>>,
              <<ECO("activity_name"), RDFS_label, Literal("EcoInvent activity label", "en")>> }
      [] t = "intermediateExchange" ->
            { <<ECO("interm_exch_Id"), RDFS_subClassOf, PROD_CRID>>,
              <<ECO("interm_exch_Id"), RDFS_label,
                Literal("EcoInvent intermediary exchange identifier", "en")>>,
              <<ECO("interm_exch_name"), RDFS_subClassOf, REF_PRODUCT>>,
              <<ECO("interm_exch_name"), RDFS_label,
                Literal("EcoInvent intermediary exchange label", "en")>> }
            \cup to_sort_triples(inter_to_sort_comment)
      [] OTHER ->
            { <<ECO("elementary_exchange_id"), RDFS_subClassOf, PROD_CRID>>,
              <<ECO("elementary_exchange_id"), RDFS_label,
                Literal("EcoInvent elementary exchange identifier", "en")>>,
              <<ECO("elem_exch_name"), RDFS_subClassOf, REF_PRODUCT>>,
              <<ECO("elem_exch_name"), RDFS_label,
                Literal("EcoInvent elementary exchange label", "en")>> }

\* the CRID pattern of one record: types and the has-part / part-of edges
crid_triples(rec_id, xml_root, reg, crid_type, name_type) ==
    LET crid == rec_id \o database_version(xml_root)
        dbid == database_id(xml_root, reg)
    IN  { <<ECO(crid), RDF_type, crid_type>>,
          <<ECO(rec_id), RDF_type, name_type>>,
          <<ECO(crid), BFO_has_part, ECO(dbid)>>,
          <<ECO(dbid), BFO_part_of, ECO(crid)>>,
          <<ECO(crid), BFO_has_part, ECO(rec_id)>>,
          <<ECO(rec_id), BFO_part_of, ECO(crid)>> }

product_id(rec_id) == rec_id \o "t_prod"

\* one label triple per name of the record, on node subj, with a prefix
name_labels(subj, prefix, names) ==
    { <<subj, RDFS_label, Literal(prefix \o names[k][2], names[k][1])>> : k \in 1..Len(names) }

\* What one pass of a mapper's loop does: the triples it adds, and whether
\* it ends normally (ok) or raises.
Result(triples, ok) == [triples |-> triples, ok |-> ok]

\* act2graph, one activityName element
act2graph_record(rec, xml_root, reg) ==
    LET crid == rec.id \o database_version(xml_root)
    IN  Result(crid_triples(rec.id, xml_root, reg, ECO("activityId"), ECO("activity_name"))
               \cup name_labels(ECO(crid), database_label(xml_root, reg) \o ":", rec.names)
               \cup name_labels(ECO(rec.id), "", rec.names),
               TRUE)

\* The outcome of elem.find('eco:unitName', namespaces).text on a record
\* without unitName: AttributeError.
AttributeError == <<"raise", "AttributeError">>

\* inter2graph's if / elif / elif / else on one record: the type added, or
\* the exception raised.
\* the units are looked at before the property block
inter_product_type_first_unit(rec) ==
    IF rec.unitName = NoElement THEN AttributeError
    ELSE IF rec.unitName \in ecoinvent_units.good THEN MATERIAL_ENTITY
    ELSE IF rec.unitName \in ecoinvent_units.service THEN SERVICE
    ELSE IF rec.property THEN MATERIAL_ENTITY
    ELSE IEO_to_sort

\* a missing unitName falls through to the last branch
inter_product_type_default(rec) ==
    IF rec.property THEN MATERIAL_ENTITY
    ELSE IF rec.unitName \in ecoinvent_units.good THEN MATERIAL_ENTITY
    ELSE IF rec.unitName \in ecoinvent_units.service THEN SERVICE
    ELSE IEO_to_sort

inter_product_type(rec) ==
    IF rec.property THEN MATERIAL_ENTITY
    ELSE IF rec.unitName = NoElement THEN AttributeError
    ELSE IF rec.unitName \in ecoinvent_units.good THEN MATERIAL_ENTITY
    ELSE IF rec.unitName \in ecoinvent_units.service THEN SERVICE
    ELSE IEO_to_sort

\* elem2graph's if / elif / else on one record: the type added, or the
\* exception raised.
\* the branches of inter2graph, with its service branch
elem_product_type_with_service(rec) ==
    IF rec.property THEN MATERIAL_ENTITY
    ELSE IF rec.unitName = NoElement THEN AttributeError
    ELSE IF rec.unitName \in ecoinvent_units.good THEN MATERIAL_ENTITY
    ELSE IF rec.unitName \in ecoinvent_units.service THEN SERVICE
    ELSE IEO_to_sort

elem_product_type(rec) ==
    IF rec.property THEN MATERIAL_ENTITY
    ELSE IF rec.unitName = NoElement THEN AttributeError
    ELSE IF rec.unitName \in ecoinvent_units.good THEN MATERIAL_ENTITY
    ELSE IEO_to_sort

type_triples(rec_id, type) ==
    IF type = AttributeError THEN {} ELSE {<<ECO(product_id(rec_id)), RDF_type, type>>}

\* inter2graph, one intermediateExchange element
inter2graph_record(rec, xml_root, reg) ==
    LET crid == rec.id \o database_version(xml_root)
        type == inter_product_type(rec)
    IN  Result(crid_triples(rec.id, xml_root, reg, ECO("interm_exch_Id"), ECO("interm_exch_name"))
               \cup {<<ECO(rec.id), IAO_denotes, ECO(product_id(rec.id))>>}
               \cup name_labels(ECO(crid), database_label(xml_root, reg) \o ":", rec.names)
               \cup name_labels(ECO(rec.id), "", rec.names)
               \cup name_labels(ECO(product_id(rec.id)), "", rec.names)
               \cup type_triples(rec.id, type),
               type # AttributeError)

\* elem2graph's loop over the names of one record.  compartment_label and
\* subcompartment_label are Elements or None; the test is
\* (compartment_label and subcompartment_label) is not None, and an Element
\* without child elements is false.
RECURSIVE elem_names(_, _, _, _, _)
elem_names(rec, xml_root, reg, names, acc) ==
    IF names = <<>> THEN Result(acc, TRUE)
    ELSE
        LET name == Head(names)
            lang == name[1]
            crid == rec.id \o database_version(xml_root)
            \* value of (compartment_label and subcompartment_label) is not None
            test == CASE rec.comp[lang] = "absent" -> FALSE
                      [] rec.comp[lang] = "leaf" -> TRUE
                      [] OTHER -> rec.sub[lang]
            elem_exch_label == name[2] \o ", in " \o compartment_text[lang]
                               \o ", " \o subcompartment_text[lang]
            labelled ==
                { <<ECO(crid), RDFS_label,
                    Literal(database_label(xml_root, reg) \o ":" \o elem_exch_label, lang)>>,
                  <<ECO(rec.id), RDFS_label, Literal(elem_exch_label, lang)>>,
                  <<ECO(product_id(rec.id)), RDFS_label, Literal(elem_exch_label, lang)>> }
        IN  IF ~test THEN elem_names(rec, xml_root, reg, Tail(names), acc)
            ELSE IF ~rec.sub[lang] THEN Result(acc, FALSE)  \* None.text
            ELSE elem_names(rec, xml_root, reg, Tail(names), acc \cup labelled)

\* elem2graph, one elementaryExchange element
elem2graph_record(rec, xml_root, reg) ==
    LET first ==
            crid_triples(rec.id, xml_root, reg,
                         ECO("elementary_exchange_id"), ECO("elem_exch_name"))
            \cup {<<ECO(rec.id), IAO_denotes, ECO(product_id(rec.id))>>}
            \cup to_sort_triples(elem_to_sort_comment)
        named == elem_names(rec, xml_root, reg, rec.names, first)
        type == elem_product_type(rec)
    IN  IF ~named.ok THEN named
        ELSE Result(named.triples \cup type_triples(rec.id, type), type # AttributeError)

\* masterDataTransf[tag], one pass of its loop
mapper_record(t, rec, xml_root, reg) ==
    CASE t = "activityName" -> act2graph_record(rec, xml_root, reg)
      [] t = "intermediateExchange" -> inter2graph_record(rec, xml_root, reg)
      [] OTHER -> elem2graph_record(rec, xml_root, reg)

\* ------------------------------------------------------------- the inputs
Rec(kind, id, names, property, unitName, comp, sub) ==
    [kind |-> kind, id |-> id, names |-> names, property |-> property,
     unitName |-> unitName, comp |-> comp, sub |-> sub]

Ids == {"a", "b"}
en1 == <<"en", "copper">>
en2 == <<"en", "copper, primary">>
fr1 == <<"fr", "cuivre">>
NameLists == {<<>>, <<en1>>, <<fr1>>, <<en1, fr1>>, <<fr1, en1>>, <<en1, en2>>}
NoComp == [l \in Langs |-> "absent"]
NoSub == [l \in Langs |-> FALSE]
LeafComp == [l \in Langs |-> "leaf"]
AllSub == [l \in Langs |-> TRUE]
UnitNames ==
    ecoinvent_units.good \cup ecoinvent_units.service \cup ecoinvent_units.not_determined
    \cup {"mol", NoneText, NoElement}

\* the records of the files that hold several records
CoreRecs ==
    { Rec("activityName", i, <<en1>>, FALSE, NoElement, NoComp, NoSub) : i \in Ids }
    \cup { Rec("activityName", "a", <<>>, FALSE, NoElement, NoComp, NoSub) }
    \cup { Rec("intermediateExchange", i, <<en1>>, FALSE, "kWh", NoComp, NoSub) : i \in Ids }
    \cup { Rec("intermediateExchange", i, <<en1>>, TRUE, "kg", NoComp, NoSub) : i \in Ids }
    \cup { Rec("intermediateExchange", "b", <<en1>>, FALSE, NoElement, NoComp, NoSub) }
    \cup { Rec("elementaryExchange", i, <<en1>>, FALSE, "kWh", LeafComp, AllSub) : i \in Ids }
    \cup { Rec("elementaryExchange", i, <<en1>>, TRUE, "kg", LeafComp, AllSub) : i \in Ids }

\* every unit, with and without a property block, with and without a name
UnitRecs ==
    { Rec(k, "a", n, p, u, NoComp, NoSub) :
        k \in {"intermediateExchange", "elementaryExchange"},
        n \in {<<>>, <<en1>>}, p \in BOOLEAN, u \in UnitNames }

\* every list of names, with every combination of compartment and
\* subcompartment per language
NameRecs ==
    { Rec(k, "a", n, FALSE, "kg", NoComp, NoSub) :
        k \in {"activityName", "intermediateExchange"}, n \in NameLists }
    \cup { Rec("elementaryExchange", "a", n, FALSE, "kg", c, s) :
            n \in NameLists, c \in [Langs -> {"absent", "leaf", "nonleaf"}],
            s \in [Langs -> BOOLEAN] }

CoreLists(n) == UNION { [1..k -> CoreRecs] : k \in 0..n }
RecLists == CoreLists(MaxRecs) \cup { <<r>> : r \in UnitRecs \cup NameRecs }

Releases == {<<"3", "1">>, <<"2", "0">>}
Namespaces == {"http://www.EcoInvent.org/EcoSpold02", "http://example.org/other"}

Roots ==
    { [ns |-> n, majorRelease |-> v[1], minorRelease |-> v[2], recs |-> rl] :
        n \in Namespaces, v \in Releases, rl \in RecLists }

\* a path: directory, stem and extension; the path is their concatenation
Path(dir, stem, ext) == [dir |-> dir, stem |-> stem, ext |-> ext]
\* args.output_path when the command line gives none: False
NotGiven == Path("", "<False>", "")
Formats == {"json-ld", "xml", "n3", "nt"}
InputPaths == {Path("", "f", ".xml"), Path("", "f", ".rdf"), Path("/d/", "f", ".rdf")}
OtherPath == Path("", "out", ".rdf")
DefaultArgs == [input_path |-> Path("", "f", ".xml"), output_path |-> NotGiven, format |-> "xml"]
AllArgs ==
    { [input_path |-> i, output_path |-> o, format |-> f] :
        i \in InputPaths, o \in {NotGiven, OtherPath} \cup InputPaths, f \in Formats }

\* ------------------------------------------------------------------- main
\* os.path.abspath, with the working directory /d/
abspath(path) == IF path.dir = "" THEN [path EXCEPT !.dir = "/d/"] ELSE path
new_ext == [f \in Formats |->
               CASE f = "json-ld" -> ".json" [] f = "xml" -> ".rdf"
                 [] f = "n3" -> ".n3" [] OTHER -> ".nt"]

\* main, from after the graph is built to the comparison of the paths
resolved_output_path(a) ==
    IF a.output_path = NotGiven
    THEN [abspath(a.input_path) EXCEPT !.ext = new_ext[a.format]]
    ELSE a.output_path

Answers == {"yes", "Y", "no", "N", "maybe"}
lower == [a \in Answers |-> CASE a = "Y" -> "y" [] a = "N" -> "n" [] OTHER -> a]
NewPaths == InputPaths \cup {OtherPath}

\* root when there is no document: isic2rdf, or a file Xml.parse rejects
Idle == [ns |-> "", majorRelease |-> "", minorRelease |-> "", recs |-> <<>>]

Unbound == [reg_id |-> "<unbound>", label |-> "<unbound>"]

\* Every document runs with the default command line, and every command
\* line runs with the documents of at most one record.
Init ==
    /\ pc = "start"
    /\ graph = {}
    /\ readable \in BOOLEAN
    /\ root \in (IF readable THEN Roots ELSE {Idle})
    /\ args \in AllArgs
    /\ args = DefaultArgs \/ root.recs \in CoreLists(1)
    /\ depth = 0
    /\ registry = Unbound
    /\ tag = 1
    /\ idx = 1
    /\ output_path = NotGiven
    /\ written = {}
    /\ prompts = 0
    /\ data = <<>>
    /\ version = <<>>
    /\ input_text = <<>>
    /\ returned = <<>>

\* xml2graph up to its loop over the tags, the namespace known
xml2graph_known ==
    /\ pc = "start"
    /\ readable
    /\ root.ns \in DOMAIN registries
    /\ graph' = nom_graph
    /\ registry' = registries[root.ns]
    /\ pc' = "tags"
    /\ UNCHANGED <<root, tag, idx, args, output_path, written, prompts>>
    /\ UNCHANGED <<data, version, input_text, returned, depth, readable>>

\* xml2graph with an unknown namespace: the right-hand side input(...) is
\* evaluated, then registry['reg_id'] = ... reads the local variable registry,
\* which is not bound: UnboundLocalError
xml2graph_unknown ==
    /\ pc = "start"
    /\ readable
    /\ root.ns \notin DOMAIN registries
    /\ graph' = nom_graph
    /\ prompts' = prompts + 1
    /\ pc' = "error"
    /\ UNCHANGED <<root, registry, tag, idx, args, output_path, written>>
    /\ UNCHANGED <<data, version, input_text, returned, depth, readable>>

\* xml2graph on a file that is not well-formed XML: Xml.parse raises
\* ParseError, after graph = nom_graph()
xml2graph_parse_error ==
    /\ pc = "start"
    /\ ~readable
    /\ graph' = nom_graph
    /\ pc' = "error"
    /\ UNCHANGED <<root, registry, tag, idx, args, output_path, written, prompts>>
    /\ UNCHANGED <<data, version, input_text, returned, depth, readable>>

\* for tag in masterDataTransf.keys(): if root.find(tag, ns): the mapper is
\* called: define_registry's wrapper, then the mapper up to its loop
xml2graph_call ==
    /\ pc = "tags"
    /\ tag <= Len(Tags)
    /\ find_is_true(root, Tags[tag])
    /\ graph' = graph \cup func_wrapper(root, registry) \cup mapper_header(Tags[tag], registry)
    /\ idx' = 1
    /\ pc' = "loop"
    /\ UNCHANGED <<root, registry, tag, args, output_path, written, prompts>>
    /\ UNCHANGED <<data, version, input_text, returned, depth, readable>>

\* ... the tag is not there, or its first element has no child element
xml2graph_skip ==
    /\ pc = "tags"
    /\ tag <= Len(Tags)
    /\ ~find_is_true(root, Tags[tag])
    /\ tag' = tag + 1
    /\ UNCHANGED <<pc, graph, root, registry, idx, args, output_path, written, prompts>>
    /\ UNCHANGED <<data, version, input_text, returned, depth, readable>>

\* the pass returns a new graph with the triples of its record only
mapper_step_new_graph ==
    /\ pc = "loop"
    /\ idx <= Len(findall(root, Tags[tag]))
    /\ LET r == mapper_record(Tags[tag], findall(root, Tags[tag])[idx], root, registry)
       IN  /\ graph' = r.triples
           /\ pc' = IF r.ok THEN "loop" ELSE "error"
           /\ idx' = IF r.ok THEN idx + 1 ELSE idx
    /\ UNCHANGED <<root, registry, tag, args, output_path, written, prompts>>
    /\ UNCHANGED <<data, version, input_text, returned, depth, readable>>

\* the graph is written to the output file after each pass
mapper_step_writing ==
    /\ pc = "loop"
    /\ idx <= Len(findall(root, Tags[tag]))
    /\ LET r == mapper_record(Tags[tag], findall(root, Tags[tag])[idx], root, registry)
       IN  /\ graph' = graph \cup r.triples
           /\ pc' = IF r.ok THEN "loop" ELSE "error"
           /\ idx' = IF r.ok THEN idx + 1 ELSE idx
           /\ written' = written \cup {[path |-> resolved_output_path(args),
                                        format |-> args.format,
                                        triples |-> graph \cup r.triples]}
    /\ UNCHANGED <<root, registry, tag, args, output_path, prompts>>
    /\ UNCHANGED <<data, version, input_text, returned, depth, readable>>

\* one pass of the mapper's loop over findall(tag)
mapper_step ==
    /\ pc = "loop"
    /\ idx <= Len(findall(root, Tags[tag]))
    /\ LET r == mapper_record(Tags[tag], findall(root, Tags[tag])[idx], root, registry)
       IN  /\ graph' = graph \cup r.triples
           /\ pc' = IF r.ok THEN "loop" ELSE "error"
           /\ idx' = IF r.ok THEN idx + 1 ELSE idx
    /\ UNCHANGED <<root, registry, tag, args, output_path, written, prompts>>
    /\ UNCHANGED <<data, version, input_text, returned, depth, readable>>

\* the mapper's return graph
mapper_return ==
    /\ pc = "loop"
    /\ idx > Len(findall(root, Tags[tag]))
    /\ tag' = tag + 1
    /\ pc' = "tags"
    /\ UNCHANGED <<graph, root, registry, idx, args, output_path, written, prompts>>
    /\ UNCHANGED <<data, version, input_text, returned, depth, readable>>

\* xml2graph's return graph
xml2graph_return ==
    /\ pc = "tags"
    /\ tag > Len(Tags)
    /\ pc' = "built"
    /\ UNCHANGED <<graph, root, registry, tag, idx, args, output_path, written, prompts>>
    /\ UNCHANGED <<data, version, input_text, returned, depth, readable>>

\* main, from the graph to the comparison of the paths
main_output_path ==
    /\ pc = "built"
    /\ output_path' = resolved_output_path(args)
    /\ pc' = IF args.input_path = resolved_output_path(args) THEN "prompt" ELSE "serialize"
    /\ UNCHANGED <<graph, root, registry, tag, idx, args, written, prompts>>
    /\ UNCHANGED <<data, version, input_text, returned, depth, readable>>

\* avoid_overwrite: one question, one answer; any other answer asks again
\* (a nested call)
avoid_overwrite ==
    /\ pc = "prompt"
    /\ prompts < MaxPrompts
    /\ \E answer \in Answers :
        \/ /\ lower[answer] \in {"yes", "y"}
           /\ pc' = "serialize"
           /\ prompts' = prompts + 1
           /\ depth' = 0
           /\ UNCHANGED output_path
        \/ /\ lower[answer] \in {"no", "n"}
           /\ \E new_path \in NewPaths : output_path' = new_path
           /\ pc' = "serialize"
           /\ prompts' = prompts + 2
           /\ depth' = 0
        \/ /\ lower[answer] \notin {"yes", "y", "no", "n"}
           /\ prompts' = prompts + 1
           /\ depth' = depth + 1
           /\ UNCHANGED <<pc, output_path>>
    /\ UNCHANGED <<graph, root, registry, tag, idx, args, written>>
    /\ UNCHANGED <<data, version, input_text, returned, readable>>

\* graph.serialize(output_path, format=args.format[0])
serialize ==
    /\ pc = "serialize"
    /\ written' = written \cup {[path |-> output_path, format |-> args.format, triples |-> graph]}
    /\ pc' = "done"
    /\ UNCHANGED <<graph, root, registry, tag, idx, args, output_path, prompts>>
    /\ UNCHANGED <<data, version, input_text, returned, depth, readable>>

Next ==
    \/ xml2graph_parse_error
    \/ xml2graph_known
    \/ xml2graph_unknown
    \/ xml2graph_call
    \/ xml2graph_skip
    \/ mapper_step
    \/ mapper_return
    \/ xml2graph_return
    \/ main_output_path
    \/ avoid_overwrite
    \/ serialize

Spec == Init /\ [][Next]_vars

\* ------------------------------------------------- masterdata2rdf: claims
\* the mapper of tag t is about to run a pass of its loop, on record cur
AtRecord(t) == pc = "loop" /\ Tags[tag] = t /\ idx <= Len(findall(root, t))
cur == findall(root, Tags[tag])[idx]
\* the record of the pass the mapper of tag t has just finished normally
Passed(t) == pc = "loop" /\ Tags[tag] = t /\ idx > 1
last == findall(root, Tags[tag])[idx - 1]
product(rec) == ECO(product_id(rec.id))
NoPropertyServiceUnit(rec) == ~rec.property /\ rec.unitName \in ecoinvent_units.service

\* C1: a pass of inter2graph over a record with no property block and a
\* service unit types the product node service; a pass of elem2graph over
\* such a record, when it reaches the classification, types it to-sort; no
\* pass of elem2graph adds a service type to any node.
C1_asymmetry ==
    [][ /\ AtRecord("intermediateExchange") /\ NoPropertyServiceUnit(cur)
            => pc' = "loop" /\ <<product(cur), RDF_type, SERVICE>> \in graph'
        /\ AtRecord("elementaryExchange") /\ NoPropertyServiceUnit(cur) /\ pc' = "loop"
            => <<product(cur), RDF_type, IEO_to_sort>> \in graph'
        /\ AtRecord("elementaryExchange")
            => \A u \in graph' \ graph : ~(u[2] = RDF_type /\ u[3] = SERVICE)
      ]_vars

\* an elementary exchange in kWh has been typed to-sort, in a file whose
\* intermediate exchange in kWh was typed service
C1_witness ==
    /\ Passed("elementaryExchange")
    /\ NoPropertyServiceUnit(last) /\ last.unitName = "kWh"
    /\ <<product(last), RDF_type, IEO_to_sort>> \in graph
    /\ <<product(last), RDF_type, SERVICE>> \notin graph
    /\ \E k \in 1..Len(root.recs) :
        /\ root.recs[k].kind = "intermediateExchange"
        /\ NoPropertyServiceUnit(root.recs[k])
        /\ <<product(root.recs[k]), RDF_type, SERVICE>> \in graph

\* C2: a pass of inter2graph or elem2graph over a record with a property
\* block adds no type but material-entity to the product node, whatever the
\* unit; when it reaches the classification the node is typed
\* material-entity, and inter2graph always reaches it.
C2_property_first ==
    [][ /\ AtRecord("intermediateExchange") /\ cur.property
            => pc' = "loop" /\ <<product(cur), RDF_type, MATERIAL_ENTITY>> \in graph'
        /\ AtRecord("elementaryExchange") /\ cur.property /\ pc' = "loop"
            => <<product(cur), RDF_type, MATERIAL_ENTITY>> \in graph'
        /\ (AtRecord("intermediateExchange") \/ AtRecord("elementaryExchange")) /\ cur.property
            => \A u \in graph' \ graph :
                   u[1] = product(cur) /\ u[2] = RDF_type => u[3] = MATERIAL_ENTITY
      ]_vars

\* a record with a property block and no unitName element was typed
\* material-entity, and nothing else
C2_witness ==
    /\ Passed("intermediateExchange") \/ Passed("elementaryExchange")
    /\ last.property /\ last.unitName = NoElement
    /\ \A u \in graph : u[1] = product(last) /\ u[2] = RDF_type => u[3] = MATERIAL_ENTITY
    /\ <<product(last), RDF_type, MATERIAL_ENTITY>> \in graph

\* C4 (as claimed): once act2graph has run, every activityName record has
\* its CRID node typed activityId, labelled in each language of its names
\* with the label of the database version node (registry label, v, major,
\* ., minor), a colon and the name; the bare node carries the name.
C4_crid_label_has_database_label ==
    (registry # Unbound /\ tag > 1 /\ find_is_true(root, "activityName")) =>
        \A k \in 1..Len(findall(root, "activityName")) :
            LET rec == findall(root, "activityName")[k]
                crid == ECO(rec.id \o database_version(root))
                L == registry.label \o "v" \o root.majorRelease \o "." \o root.minorRelease
            IN  /\ <<crid, RDF_type, ECO("activityId")>> \in graph
                /\ <<ECO(database_id(root, registry)), RDFS_label, Literal(L, NoLang)>> \in graph
                /\ \A n \in 1..Len(rec.names) :
                    /\ <<crid, RDFS_label,
                         Literal(L \o ":" \o rec.names[n][2], rec.names[n][1])>> \in graph
                    /\ <<ECO(rec.id), RDFS_label,
                         Literal(rec.names[n][2], rec.names[n][1])>> \in graph

\* C8 (as claimed): with a namespace that is not a key of registries,
\* xml2graph does not fail: it goes on to the mappers with a registry
C8_unknown_registry_degrades ==
    [][ pc = "start" /\ root.ns \notin DOMAIN registries
            => pc' = "tags" /\ registry' # Unbound ]_vars

\* both a compartment and a subcompartment text exist for language l
BothFor(rec, l) == rec.comp[l] # "absent" /\ rec.sub[l]
composite(rec, n) ==
    rec.names[n][2] \o ", in " \o compartment_text[rec.names[n][1]]
    \o ", " \o subcompartment_text[rec.names[n][1]]

\* C9 (as claimed): a pass of elem2graph labels the bare node, the product
\* node and the CRID with the composite label in every language that has
\* both texts, adds no label in a language that lacks either, and raises
\* nothing as long as the record can be classified.
C9_languages_lacking_either_are_skipped ==
    [][ AtRecord("elementaryExchange") =>
          /\ \A n \in 1..Len(cur.names) :
                BothFor(cur, cur.names[n][1]) =>
                    /\ <<ECO(cur.id), RDFS_label,
                         Literal(composite(cur, n), cur.names[n][1])>> \in graph'
                    /\ <<product(cur), RDFS_label,
                         Literal(composite(cur, n), cur.names[n][1])>> \in graph'
                    /\ <<ECO(cur.id \o database_version(root)), RDFS_label,
                         Literal(database_label(root, registry) \o ":" \o composite(cur, n),
                                 cur.names[n][1])>> \in graph'
          /\ \A u \in graph' \ graph :
                /\ u[1] \in {ECO(cur.id), product(cur), ECO(cur.id \o database_version(root))}
                /\ u[2] = RDFS_label
                => BothFor(cur, u[3][3])
          /\ (cur.property \/ cur.unitName # NoElement) => pc' = "loop"
      ]_vars

\* C10: a pass of inter2graph or elem2graph over a record with neither a
\* property block nor a unitName ends in an error and adds no type to the
\* product node; a run that ended in an error has written no file and
\* stays there.
C10_missing_unit_is_error ==
    [][ /\ (AtRecord("intermediateExchange") \/ AtRecord("elementaryExchange"))
           /\ ~cur.property /\ cur.unitName = NoElement
            => /\ pc' = "error"
               /\ \A u \in graph' \ graph : ~(u[1] = product(cur) /\ u[2] = RDF_type)
        /\ pc' = "error" => written' = {}
        /\ pc = "error" => pc' = "error"
      ]_vars

\* the mapper has stopped on a named record without property block and
\* unitName; its product node has no type and no file is written
C10_witness ==
    /\ pc = "error"
    /\ Tags[tag] = "elementaryExchange" /\ idx <= Len(findall(root, Tags[tag]))
    /\ ~cur.property /\ cur.unitName = NoElement /\ cur.names # <<>> /\ cur.comp = NoComp
    /\ \A u \in graph : ~(u[1] = product(cur) /\ u[2] = RDF_type)
    /\ written = {}

\* ---------------------------------------------------------------- isic2rdf
\* The texts of isic2rdf are sequences of characters, so that what
\* sup_spe_charact, int and str do to them can be computed.
Range(seq) == {seq[k] : k \in 1..Len(seq)}

\* str.replace(char, by) for a single character char
RECURSIVE replace(_, _, _)
replace(t, char, by) ==
    IF t = <<>> THEN <<>>
    ELSE (IF Head(t) = char THEN by ELSE <<Head(t)>>) \o replace(Tail(t), char, by)

\* the list sup_spe_charact loops over, and the list of its elif.  The
\* grave accent, which a TLA+ string cannot hold, is the character "grave".
removal_list == <<"\\", "grave", "*", " ", ">", "#", "+", "-", ".", "!", "$", "'">>
strip_list == <<"{", "}", "[", "]", "(", ")">>

\* text.replace(char, by, 1)
RECURSIVE replace_first(_, _, _)
replace_first(t, char, by) ==
    IF t = <<>> THEN <<>>
    ELSE IF Head(t) = char THEN by \o Tail(t)
    ELSE <<Head(t)>> \o replace_first(Tail(t), char, by)

\* sup_spe_charact's loop from position k of removal_list on; every says
\* whether replace is given no count
RECURSIVE sup_spe_charact_from(_, _, _)
sup_spe_charact_from(t, k, every) ==
    IF k > Len(removal_list) THEN t
    ELSE LET char == removal_list[k]
         IN  sup_spe_charact_from(
                 IF char \in Range(t)
                 THEN (IF every THEN replace(t, char, <<"_">>)
                       ELSE replace_first(t, char, <<"_">>))
                 ELSE IF char \in Range(strip_list) THEN replace(t, char, <<>>)
                 ELSE t,
                 k + 1, every)

\* only the first occurrence of each character is replaced
sup_spe_charact_first(t) == sup_spe_charact_from(t, 1, FALSE)

sup_spe_charact(t) == sup_spe_charact_from(t, 1, TRUE)

\* int(input(...)): white space around, a sign, digits
Digits == <<"0", "1", "2", "3", "4", "5", "6", "7", "8", "9">>
digit_value(c) == CHOOSE d \in 0..9 : Digits[d + 1] = c
RECURSIVE strip_left(_)
strip_left(t) == IF t # <<>> /\ Head(t) = " " THEN strip_left(Tail(t)) ELSE t
RECURSIVE strip_right(_)
strip_right(t) ==
    IF t # <<>> /\ t[Len(t)] = " " THEN strip_right(SubSeq(t, 1, Len(t) - 1)) ELSE t
unsigned(t) ==
    LET u == strip_right(strip_left(t))
    IN  IF u # <<>> /\ Head(u) \in {"+", "-"} THEN Tail(u) ELSE u
\* int(t) raises ValueError
is_int(t) == unsigned(t) # <<>> /\ \A k \in 1..Len(unsigned(t)) : unsigned(t)[k] \in Range(Digits)
RECURSIVE digits_value(_)
digits_value(t) ==
    IF t = <<>> THEN 0 ELSE 10 * digits_value(SubSeq(t, 1, Len(t) - 1)) + digit_value(t[Len(t)])
int(t) ==
    LET u == strip_right(strip_left(t))
    IN  IF Head(u) = "-" THEN 0 - digits_value(unsigned(t)) ELSE digits_value(unsigned(t))
\* str(n)
RECURSIVE str_nat(_)
str_nat(n) == IF n < 10 THEN <<Digits[n + 1]>> ELSE str_nat(n \div 10) \o <<Digits[(n % 10) + 1]>>
str(n) == IF n < 0 THEN <<"-">> \o str_nat(0 - n) ELSE str_nat(n)

ISIC(x) == <<"ISIC", x>>
STAT_REGISTRY == IEO("IEO_0000071")
ISIC_crid_reg == ISIC(<<"I", "S", "I", "C">>)
ISIC_classification == ISIC(<<"c", "l", "a", "s", "s", "i", "f", "i", "c", "a", "t", "i", "o", "n">>)
ISIC_industrial_sector == ISIC(<<"i", "n", "d", "u", "s", "t", "r", "i", "a", "l", "_", "s", "e", "c", "t", "o", "r">>)
isic_crid_reg_label == <<"I", "n", "t", "e", "r", "n", "a", "t", "i", "o", "n", "a", "l", " ", "S", "t", "a", "n", "d", "a", "r", "d", " ", "I", "n", "d", "u", "s", "t", "r", "i", "a", "l", " ", "C", "l", "a", "s", "s", "i", "f", "i", "c", "a", "t", "i", "o", "n">>
isic_database_id(v) == <<"I", "S", "I", "C", "_", "R", "e", "v">> \o v
isic_database_label(v) == isic_crid_reg_label \o <<" ", "(", "I", "S", "I", "C", ")", " ", "R", "e", "v">> \o v
isic_classification_label(v) == <<"I", "S", "I", "C", " ", "R", "e", "v">> \o v \o <<" ", "i", "d", "e", "n", "t", "i", "f", "i", "e", "r">>

\* isic2crid from verify_version's return to its loop over the rows
isic2crid_header(v) ==
    { <<STAT_REGISTRY, RDFS_label, Literal("statistical classification registry", "en")>>,
      <<ISIC_crid_reg, RDF_type, STAT_REGISTRY>>,
      <<ISIC_crid_reg, RDFS_label, Literal(isic_crid_reg_label, NoLang)>>,
      <<REGISTRY_VERSION, RDFS_label, Literal("registry version", "en")>>,
      <<ISIC(isic_database_id(v)), RDF_type, REGISTRY_VERSION>>,
      <<ISIC(isic_database_id(v)), RDFS_label, Literal(isic_database_label(v), NoLang)>>,
      <<ISIC(isic_database_id(v)), IAO_denotes, ISIC_crid_reg>>,
      <<IAO_denotes, RDFS_label, Literal("denotes", "en")>>,
      <<ISIC_classification, RDFS_label, Literal(isic_classification_label(v), "en")>>,
      <<ISIC_classification, RDFS_subClassOf, ACT_CRID>>,
      <<ISIC_industrial_sector, RDFS_subClassOf, REF_ACTIVITY>>,
      <<ISIC_industrial_sector, RDFS_label,
        Literal(isic_classification_label(v) \o <<" ", "l", "a", "b", "e", "l">>, "en")>> }

\* the triples of one row, with CRID local name crid
isic2crid_row_with(crid, row, v) ==
    LET activity_label == row.label
        database_id_ == isic_database_id(v)
        crid_label == database_id_ \o <<":">> \o row.code \o <<" ">> \o activity_label
        activity_id == sup_spe_charact(activity_label)
    IN  { <<ISIC(activity_id), RDF_type, ISIC_industrial_sector>>,
          <<ISIC(activity_id), RDFS_label, Literal(activity_label, "en")>>,
          <<ISIC(crid), RDFS_label, Literal(crid_label, "en")>>,
          <<ISIC(crid), RDF_type, ISIC_classification>>,
          <<ISIC(crid), BFO_has_part, ISIC(database_id_)>>,
          <<ISIC(database_id_), BFO_part_of, ISIC(crid)>>,
          <<ISIC(crid), BFO_has_part, ISIC(activity_id)>>,
          <<ISIC(activity_id), BFO_part_of, ISIC(crid)>> }

\* the CRID is named after the sanitized label instead of the code
isic2crid_row_crid_of_label(row, v) ==
    isic2crid_row_with(isic_database_id(v) \o <<"_">> \o sup_spe_charact(row.label), row, v)

\* isic2crid, one pass of its loop, on a row whose code is unique in
\* data.index and whose label is a string
isic2crid_row(row, v) ==
    isic2crid_row_with(isic_database_id(v) \o <<"_">> \o row.code, row, v)

\* data.loc[code][0] on a code that is several times in data.index is a
\* DataFrame's column 0: KeyError.  An empty label cell is NaN, which
\* sup_spe_charact cannot search: TypeError.
row_raises(d, k) ==
    \/ \E j \in 1..Len(d) : j # k /\ d[j].code = d[k].code
    \/ d[k].label = <<>>

\* the inputs
Codes == {<<"0", "1">>, <<"0", "2">>}
Labels == {<<>>, <<"I", "S", "I", "C", " ", "R", "e", "v", "4", " ", "0", "1">>,
           <<"a", " ", "b">>, <<"a", "_", "b">>, <<"(", "a", ")">>, <<"I", "S", "I", "C", " ", "R", "e", "v", "4">>}
Rows == { [code |-> c, label |-> l] : c \in Codes, l \in Labels }
DataFrames == UNION { [1..k -> Rows] : k \in 0..MaxRows }
VersionInputs == {<<"4">>, <<" ", "0", "4">>, <<"0">>, <<"-", "1">>, <<"x">>}

InitIsic ==
    /\ pc = "start"
    /\ graph = {}
    /\ readable \in BOOLEAN
    /\ data \in (IF readable THEN DataFrames ELSE {<<>>})
    /\ args \in AllArgs
    /\ depth = 0
    /\ args = DefaultArgs \/ Len(data) <= 1
    /\ version = <<>>
    /\ root = Idle
    /\ registry = Unbound
    /\ tag = 1
    /\ idx = 1
    /\ output_path = NotGiven
    /\ written = {}
    /\ prompts = 0
    /\ input_text = <<>>
    /\ returned = <<>>

\* main on a file read_csv cannot read: the except clause raises a str,
\* which is a TypeError
read_csv_error ==
    /\ pc = "start"
    /\ ~readable
    /\ pc' = "error"
    /\ UNCHANGED <<graph, root, registry, tag, idx, args, output_path, written, prompts>>
    /\ UNCHANGED <<data, version, input_text, returned, depth, readable>>

\* isic2crid up to the call of verify_version
isic2crid_start ==
    /\ pc = "start"
    /\ readable
    /\ graph' = nom_graph
    /\ pc' = "version"
    /\ UNCHANGED <<root, registry, tag, idx, args, output_path, written, prompts>>
    /\ UNCHANGED <<data, version, input_text, returned, depth, readable>>

\* verify_version: one question, one answer.  An answer int() accepts is
\* returned, up the nested calls, and isic2crid goes on to its loop; any
\* other answer asks again (a nested call).
verify_version ==
    /\ pc = "version"
    /\ prompts < MaxPrompts
    /\ prompts' = prompts + 1
    /\ \E answer \in VersionInputs :
        IF is_int(answer)
        THEN /\ version' = str(int(answer))
             /\ graph' = graph \cup isic2crid_header(str(int(answer)))
             /\ idx' = 1
             /\ pc' = "rows"
             /\ depth' = 0
        ELSE /\ depth' = depth + 1
             /\ UNCHANGED <<version, graph, idx, pc>>
    /\ UNCHANGED <<root, registry, tag, args, output_path, written, data, input_text, returned>>
    /\ UNCHANGED readable

\* one pass of isic2crid's loop over data.index
isic2crid_step ==
    /\ pc = "rows"
    /\ idx <= Len(data)
    /\ IF row_raises(data, idx)
       THEN pc' = "error" /\ UNCHANGED <<graph, idx>>
       ELSE /\ graph' = graph \cup isic2crid_row(data[idx], version)
            /\ idx' = idx + 1
            /\ UNCHANGED pc
    /\ UNCHANGED <<root, registry, tag, args, output_path, written, prompts>>
    /\ UNCHANGED <<data, version, input_text, returned, depth, readable>>

\* isic2crid's return graph
isic2crid_return ==
    /\ pc = "rows"
    /\ idx > Len(data)
    /\ pc' = "built"
    /\ UNCHANGED <<graph, root, registry, tag, idx, args, output_path, written, prompts>>
    /\ UNCHANGED <<data, version, input_text, returned, depth, readable>>

NextIsic ==
    \/ read_csv_error
    \/ isic2crid_start
    \/ verify_version
    \/ isic2crid_step
    \/ isic2crid_return
    \/ main_output_path
    \/ avoid_overwrite
    \/ serialize

SpecIsic == InitIsic /\ [][NextIsic]_vars

\* ------------------------------------------------------- sup_spe_charact
\* The function alone: called on a text, then on what it returned.
Alphabet == Range(removal_list) \cup Range(strip_list) \cup {"a", "_"}
Texts == UNION { [1..k -> Alphabet] : k \in 0..MaxLen }

InitSan ==
    /\ pc = "sanitize"
    /\ input_text \in Texts
    /\ readable = TRUE
    /\ depth = 0
    /\ returned = <<>>
    /\ graph = {}
    /\ root = Idle
    /\ registry = Unbound
    /\ tag = 1
    /\ idx = 1
    /\ args = DefaultArgs
    /\ output_path = NotGiven
    /\ written = {}
    /\ prompts = 0
    /\ data = <<>>
    /\ version = <<>>

sup_spe_charact_call ==
    /\ pc = "sanitize"
    /\ Len(returned) < MaxCalls
    /\ returned' = Append(returned,
                          sup_spe_charact(IF returned = <<>> THEN input_text
                                          ELSE returned[Len(returned)]))
    /\ UNCHANGED <<pc, graph, root, registry, tag, idx, args, output_path, written, prompts>>
    /\ UNCHANGED <<data, version, input_text, depth, readable>>

NextSan == sup_spe_charact_call

SpecSan == InitSan /\ [][NextSan]_vars

\* ------------------------------------------------------------ properties
has_parts(n) == {t \in graph : t[1] = n /\ t[2] = BFO_has_part}
isic_crids == {t[1] : t \in {u \in graph : u[2] = RDF_type /\ u[3] = ISIC_classification}}
IsicBuilt == pc \in {"built", "prompt", "serialize", "done"}

\* C3: every CRID instance node has exactly two has-part edges, one to the
\* database-version node and one to its bare-entity node, and every has-part
\* edge has its part-of counterpart.  Stated on the graph isic2crid builds.
C3_crid_has_two_parts ==
    /\ \A n \in isic_crids :
        /\ Cardinality(has_parts(n)) = 2
        /\ <<n, BFO_has_part, ISIC(isic_database_id(version))>> \in graph
    /\ \A t \in graph :
        t[2] = BFO_has_part => <<t[3], BFO_part_of, t[1]>> \in graph

\* what the description of sup_spe_charact says of one text: every removal
\* character becomes an underscore, every strip character is deleted
RECURSIVE described_sanitize(_)
described_sanitize(t) ==
    IF t = <<>> THEN <<>>
    ELSE (IF Head(t) \in Range(removal_list) THEN <<"_">>
          ELSE IF Head(t) \in Range(strip_list) THEN <<>>
          ELSE <<Head(t)>>) \o described_sanitize(Tail(t))

\* C5: for every text x, sup_spe_charact(x) is x with every removal
\* character replaced by an underscore and every strip character deleted, so
\* that the result holds no character of either list.
C5_replaces_and_strips ==
    returned # <<>> =>
        /\ returned[1] = described_sanitize(input_text)
        /\ Range(returned[1]) \cap (Range(removal_list) \cup Range(strip_list)) = {}

\* C6: sup_spe_charact is idempotent: applied to its own result it returns
\* that result.
C6_idempotent ==
    \A k \in 1..(Len(returned) - 1) : returned[k + 1] = returned[k]

C6_witness ==
    /\ Len(returned) >= 2
    /\ returned[1] # input_text
    /\ Len(input_text) >= 2
    /\ input_text[1] = input_text[2]

Contains(t, sub) ==
    \E i \in 0..(Len(t) - Len(sub)) : SubSeq(t, i + 1, i + Len(sub)) = sub

\* C7: each row (code, label) isic2crid has passed, with version v, has its
\* CRID node ISIC_Rev{v}_{code}, typed classification, with an English label
\* that contains ISIC_Rev{v}, the code and the label, and the two has-part /
\* part-of pairs, to the database-version node and to the node of the
\* sanitized label; there are as many CRID nodes as rows passed.
C7_one_crid_per_row ==
    pc = "rows" \/ IsicBuilt =>
        /\ \A k \in 1..(idx - 1) :
            LET dbid == <<"I", "S", "I", "C", "_", "R", "e", "v">> \o version
                crid == ISIC(dbid \o <<"_">> \o data[k].code)
                bare == ISIC(sup_spe_charact(data[k].label))
            IN  /\ <<crid, RDF_type, ISIC_classification>> \in graph
                /\ \E t \in graph :
                    /\ t[1] = crid
                    /\ t[2] = RDFS_label
                    /\ t[3][3] = "en"
                    /\ Contains(t[3][2], dbid)
                    /\ Contains(t[3][2], data[k].code)
                    /\ Contains(t[3][2], data[k].label)
                /\ <<crid, BFO_has_part, ISIC(dbid)>> \in graph
                /\ <<ISIC(dbid), BFO_part_of, crid>> \in graph
                /\ <<crid, BFO_has_part, bare>> \in graph
                /\ <<bare, BFO_part_of, crid>> \in graph
        /\ Cardinality(isic_crids) = idx - 1
        /\ IsicBuilt => idx - 1 = Len(data)

C7_witness ==
    /\ pc = "done"
    /\ Len(data) = 2
    /\ data[1].label = data[2].label
    /\ Cardinality(isic_crids) = 2

\* ------------------------------------------------- the prompts and the file
\* C11: re-prompting is bounded: an invalid answer to verify_version or to
\* avoid_overwrite never deepens the nesting of calls, and after a fixed
\* number of invalid answers in a row the function stops asking (here: it
\* has stopped once MaxPrompts answers in a row were invalid).
C11_reprompt_is_bounded ==
    [][/\ depth' <= depth
       /\ depth' >= MaxPrompts => pc' = "error"]_vars

\* two paths of the same file
SameFile(p, q) == abspath(p) = abspath(q)

\* C12: the graph goes to be serialized onto the input file only from the
\* overwrite prompt, that is after the operator said yes or gave that path,
\* and when the resolved output path is the input path the prompt comes
\* before the serialization.
C12_overwrite_only_after_prompt ==
    [][/\ (pc # "serialize" /\ pc' = "serialize" /\ SameFile(output_path', args.input_path))
            => pc = "prompt"
       /\ (pc = "built" /\ resolved_output_path(args) = args.input_path)
            => pc' = "prompt"]_vars

\* the graph build of the tool is over, without error
BuildComplete ==
    /\ readable
    /\ \/ tag > Len(Tags)
       \/ version # <<>> /\ idx > Len(data)

\* C13: a file is written only by graph.serialize, once the whole build is
\* over, and it holds the whole graph; a run that ends in an error has
\* written no file.
C13_no_partial_output ==
    [][/\ written' # written =>
            /\ pc = "serialize"
            /\ BuildComplete
            /\ \A f \in written' \ written : f.triples = graph
       /\ pc' = "error" => written' = {}]_vars

\* a mapper has failed on a record after adding triples of that record
C13_witness ==
    /\ pc = "error"
    /\ registry # Unbound
    /\ \E t \in graph : t[2] = BFO_has_part
    /\ written = {}

\* C14: verify_version returns positive integers only, so that the version
\* in the database identifier ISIC_Rev{version} is at least 1.
C14_version_is_positive ==
    version # <<>> =>
        /\ is_int(version)
        /\ int(version) >= 1
        /\ <<ISIC(isic_database_id(version)), RDF_type, REGISTRY_VERSION>> \in graph

\* xml2graph has returned its graph
Built == pc \in {"built", "prompt", "serialize", "done"}
\* the records the mappers have been called on
Mapped == {root.recs[k] : k \in {j \in 1..Len(root.recs) : find_is_true(root, root.recs[j].kind)}}
ProductTypes == {MATERIAL_ENTITY, SERVICE, IEO_to_sort}
types_of(n) == {t[3] : t \in {u \in graph : u[1] = n /\ u[2] = RDF_type}}

\* C15: once xml2graph has returned, the product node of every exchange
\* record mapped has exactly one type, which is material entity, service or
\* to-sort, and its bare node denotes it.
C15_product_has_one_type ==
    Built =>
        \A rec \in Mapped :
            rec.kind # "activityName" =>
                /\ Cardinality(types_of(product(rec))) = 1
                /\ types_of(product(rec)) \subseteq ProductTypes
                /\ <<ECO(rec.id), IAO_denotes, product(rec)>> \in graph

crid_type_of ==
    [t \in {"activityName", "intermediateExchange", "elementaryExchange"} |->
        CASE t = "activityName" -> ECO("activityId")
          [] t = "intermediateExchange" -> ECO("interm_exch_Id")
          [] OTHER -> ECO("elementary_exchange_id")]

\* C16: once xml2graph has returned from a file with records, the graph
\* holds the registry and version triples, and for every record under the
\* root, of every kind, with or without child elements, its CRID node
\* id + database_version with the CRID type of its kind.
C16_every_record_is_mapped ==
    Built /\ root.recs # <<>> =>
        /\ <<ECO(database_id(root, registry)), RDF_type, REGISTRY_VERSION>> \in graph
        /\ \A k \in 1..Len(root.recs) :
            <<ECO(root.recs[k].id \o database_version(root)), RDF_type,
              crid_type_of[root.recs[k].kind]>> \in graph

\* a mapper, and with it define_registry's wrapper, has been called
MapperCalled ==
    \/ pc = "loop"
    \/ \E k \in 1..Len(Tags) : k < tag /\ find_is_true(root, Tags[k])

\* C17: no step of a build removes a triple; the triples of nom_graph stay
\* in the graph; adding nom_graph's triples, or the triples of
\* define_registry's wrapper once a mapper has been called, a second time
\* changes nothing: the call of a second mapper adds its own header only.
C17_append_only ==
    [][/\ graph \subseteq graph'
       /\ graph' # {} =>
            /\ nom_graph \subseteq graph'
            /\ Cardinality(graph' \cup nom_graph) = Cardinality(graph')
       /\ (pc = "tags" /\ pc' = "loop" /\ func_wrapper(root, registry) \subseteq graph) =>
            graph' = graph \cup mapper_header(Tags[tag], registry)
       /\ MapperCalled =>
            Cardinality(graph \cup func_wrapper(root, registry)) = Cardinality(graph)]_vars

\* the wrapper has been applied twice and records of two kinds are mapped
C17_witness ==
    /\ pc = "done"
    /\ find_is_true(root, "activityName")
    /\ find_is_true(root, "intermediateExchange")
    /\ \E f \in written : nom_graph \subseteq f.triples
====
